---- MODULE Spec2Model ----
(***************************************************************************)
(* Model of avalon.houdini.pipeline: the container registry of the Houdini *)
(* integration (containerise, parse_container, ls), the instance Creator,  *)
(* the selection scope maintained_selection and the host lifecycle         *)
(* (install, teardown, uninstall).                                         *)
(*                                                                         *)
(* Python values that the code converts with str() are tagged records, so  *)
(* that the conversion is computed.  Stored attribute maps are functions   *)
(* from attribute names to strings.  A node is a number (its identity); a  *)
(* node path is the sequence of its name components, each component a      *)
(* number, ordered like the path string.                                   *)
(***************************************************************************)
EXTENDS Integers, Sequences, FiniteSets, TLC

VARIABLES
    attrs,              \* node -> stored attribute map (the node's parms)
    live,               \* nodes that exist in the scene
    last,               \* the last completed call: operation, arguments, outcome
    lsPc,               \* position of the ls() generator
    lsSorted,           \* the list the generator's for loop iterates
    lsIdx,              \* number of loop iterations begun
    lsOut,              \* records yielded so far
    lsErr,              \* what the generator raised to its consumer
    selection,          \* hou.selectedNodes()
    msPc,               \* position of the maintained_selection() scope
    previous_selection, \* its local variable
    msExit,             \* how the enclosed block left: "return" or "raise"
    hosts,              \* pyblish.api registered hosts
    has_been_setup,     \* self._has_been_setup
    creator_nodes       \* Creator.nodes

vars == <<attrs, live, last, lsPc, lsSorted, lsIdx, lsOut, lsErr, selection,
          msPc, previous_selection, msExit, hosts, has_been_setup,
          creator_nodes>>

sceneVars == <<attrs, live>>
lsVars == <<lsPc, lsSorted, lsIdx, lsOut, lsErr>>
hostVars == <<selection, msPc, previous_selection, msExit, hosts,
              has_been_setup, creator_nodes>>

-----------------------------------------------------------------------------
(* Bounds *)

\* entries a lookup may return beyond one per matching node
MaxRepeat == 1
\* instance nodes Creator.process may create under /out
MaxInstances == 1

-----------------------------------------------------------------------------
(* The scene graph *)

ObjRoot == 1
OutRoot == 2

\* the nodes that are direct children of /obj
ObjNodes == {1, 2}
\* a node nested inside the first /obj node: its parent is not /obj
ChildNode == 3
\* the nodes Creator.process creates under /out
OutNodes == (ChildNode + 1) .. (ChildNode + MaxInstances)
Nodes == ObjNodes \cup {ChildNode} \cup OutNodes

Parent(n) ==
    IF n \in ObjNodes THEN <<ObjRoot>>
    ELSE IF n = ChildNode THEN <<ObjRoot, 1>>
    ELSE <<OutRoot>>

\* hou.Node.path()
PathOf(n) == Append(Parent(n), n)

-----------------------------------------------------------------------------
(* Python values and str() *)

PyNone == [t |-> "NoneType"]
PyStr(s) == [t |-> "str", v |-> s]
PyOid(h) == [t |-> "ObjectId", v |-> h]

\* str(x)
Str(x) ==
    CASE x.t = "NoneType" -> "None"
      [] x.t = "str" -> x.v
      [] x.t = "ObjectId" -> x.v

EmptyMap == [k \in {} |-> ""]

\* d[k] = v on a dict
Put(d, k, v) == [x \in (DOMAIN d) \cup {k} |-> IF x = k THEN v ELSE d[x]]

\* d.get(k, default)
Get(d, k, default) == IF k \in DOMAIN d THEN d[k] ELSE default

Range(s) == {s[i] : i \in 1 .. Len(s)}

IdCurrent == "pyblish.avalon.container"
IdLegacy == "pyblish.mindbender.container"
SchemaCurrent == "avalon-core:container-2.0"
SchemaLegacy == "avalon-core:container-1.0"

PersistedFields == {"schema", "id", "name", "namespace", "loader", "representation"}
TransientFields == {"objectName", "node"}

-----------------------------------------------------------------------------
(* Attribute store (avalon.houdini.lib) and schema validation (avalon.schema) *)

\* imprint that adds the given attributes to those already stored
imprintMerging(a, node, data) ==
    [a EXCEPT ![node] =
        [k \in (DOMAIN a[node]) \cup (DOMAIN data) |->
            IF k \in DOMAIN data THEN data[k] ELSE a[node][k]]]

\* lib.imprint(node, data): the node's attributes become exactly data
imprint(a, node, data) == [a EXCEPT ![node] = data]

\* lib.read(node): a fresh dict of the node's stored attributes
read(a, node) == a[node]

\* the nodes lib.lsattr(attr, value) has to return
Matching(a, nodesAlive, attr, value) ==
    {n \in nodesAlive : attr \in DOMAIN a[n] /\ a[n][attr] = value}

\* lib.lsattr(attr, value): every matching node, in an unspecified order;
\* the contract does not exclude an entry being repeated
lsattr(a, nodesAlive, attr, value) ==
    LET M == Matching(a, nodesAlive, attr, value)
    IN  UNION {{s \in [1 .. k -> M] : Range(s) = M} :
                 k \in Cardinality(M) .. (Cardinality(M) + MaxRepeat)}

RequiredFields(schemaName) ==
    IF schemaName = SchemaCurrent THEN PersistedFields
    ELSE PersistedFields \ {"loader"}

NonEmptyFields == {"name", "representation"}

\* schema.validate(data) returns without raising
Validates(data) ==
    /\ "schema" \in DOMAIN data
    /\ data["schema"] \in {SchemaCurrent, SchemaLegacy}
    /\ RequiredFields(data["schema"]) \subseteq DOMAIN data
    /\ \A k \in NonEmptyFields : data[k] # ""

-----------------------------------------------------------------------------
(* containerise, parse_container *)

\* the dict containerise builds
ContainerData(name, namespace, loader, repId) ==
    [k \in PersistedFields |->
        CASE k = "schema" -> SchemaCurrent
          [] k = "id" -> IdCurrent
          [] k = "name" -> name
          [] k = "namespace" -> namespace
          [] k = "loader" -> Str(loader)
          [] k = "representation" -> Str(repId)]

\* positions of the nodes that are direct children of /obj
ObjChildren(nodes) == {i \in 1 .. Len(nodes) : Parent(nodes[i]) = <<ObjRoot>>}

Min(S) == CHOOSE x \in S : \A y \in S : x <= y

NoCall == [op |-> "none"]

containerise(name, namespace, nodes, repId, loader) ==
    /\ IF ObjChildren(nodes) = {}
       THEN \* next() on an empty generator expression
            /\ last' = [op |-> "containerise", err |-> "StopIteration"]
            /\ UNCHANGED attrs
       ELSE LET container == nodes[Min(ObjChildren(nodes))]
                data == ContainerData(name, namespace, loader, repId)
            IN  /\ attrs' = imprint(attrs, container, data)
                /\ last' = [op |-> "containerise", err |-> "none",
                            node |-> container, data |-> data,
                            before |-> attrs[container]]
    /\ UNCHANGED <<live, lsVars, hostVars>>

\* parse_container that sets the legacy schema whether or not one is stored
parse_containerSchemaReset(a, container, validate) ==
    LET data0 == read(a, container)
        data1 == Put(data0, "schema", SchemaLegacy)
        data2 == Put(data1, "objectName", PathOf(container))
        data3 == Put(data2, "node", container)
    IN  IF validate /\ ~Validates(data3)
        THEN [err |-> "ValidationError", data |-> EmptyMap, store |-> a]
        ELSE [err |-> "none", data |-> data3, store |-> a]

\* parse_container that validates whatever the flag says
parse_containerAlwaysValidates(a, container, validate) ==
    LET data0 == read(a, container)
        data1 == Put(data0, "schema", Get(data0, "schema", SchemaLegacy))
        data2 == Put(data1, "objectName", PathOf(container))
        data3 == Put(data2, "node", container)
    IN  IF ~Validates(data3)
        THEN [err |-> "ValidationError", data |-> EmptyMap, store |-> a]
        ELSE [err |-> "none", data |-> data3, store |-> a]

\* parse_container that imprints the defaulted schema back on the node
parse_containerWritesBack(a, container, validate) ==
    LET data0 == read(a, container)
        data1 == Put(data0, "schema", Get(data0, "schema", SchemaLegacy))
        data2 == Put(data1, "objectName", PathOf(container))
        data3 == Put(data2, "node", container)
    IN  IF validate /\ ~Validates(data3)
        THEN [err |-> "ValidationError", data |-> EmptyMap,
              store |-> imprint(a, container, data1)]
        ELSE [err |-> "none", data |-> data3,
              store |-> imprint(a, container, data1)]

\* parse_container(container, validate): what is raised, the dict returned
\* and the attribute store afterwards
parse_container(a, container, validate) ==
    LET data0 == read(a, container)
        data1 == Put(data0, "schema", Get(data0, "schema", SchemaLegacy))
        data2 == Put(data1, "objectName", PathOf(container))
        data3 == Put(data2, "node", container)
    IN  IF validate /\ ~Validates(data3)
        THEN [err |-> "ValidationError", data |-> EmptyMap, store |-> a]
        ELSE [err |-> "none", data |-> data3, store |-> a]

ParseContainer(container, validate) ==
    LET r == parse_container(attrs, container, validate)
    IN  /\ attrs' = r.store
        /\ last' = [op |-> "parse_container", err |-> r.err,
                    node |-> container, validate |-> validate,
                    data |-> r.data, before |-> attrs[container]]
        /\ UNCHANGED <<live, lsVars, hostVars>>

\* a caller of lib.imprint other than containerise (a record set by hand)
ImprintByHand(node, data) ==
    /\ attrs' = imprint(attrs, node, data)
    /\ last' = [op |-> "imprint", err |-> "none", node |-> node,
                data |-> data, before |-> attrs[node]]
    /\ UNCHANGED <<live, lsVars, hostVars>>

-----------------------------------------------------------------------------
(* ls: a generator *)

\* insertion of x into a list that ascends in rank, after its equals
InsertByRank(s, x, rank) ==
    LET before == {i \in 1 .. Len(s) : rank[s[i]] <= rank[x]}
        k == Cardinality(before)
    IN  SubSeq(s, 1, k) \o <<x>> \o SubSeq(s, k + 1, Len(s))

RECURSIVE SortByRank(_, _)
SortByRank(s, rank) ==
    IF s = <<>> THEN <<>>
    ELSE InsertByRank(SortByRank(SubSeq(s, 1, Len(s) - 1), rank), s[Len(s)], rank)

\* the orders in which the host may compare node objects
HandleOrders(S) ==
    {r \in [S -> 1 .. Cardinality(S)] : \A x, y \in S : x # y => r[x] # r[y]}

\* sorted(containers): ascending in the node objects' own comparison
sorted(containers) ==
    {SortByRank(containers, rank) : rank \in HandleOrders(Range(containers))}

\* ls that passes over a container that fails to parse
RECURSIVE ls_resumeSkipping(_, _, _, _)
ls_resumeSkipping(a, containers, idx, out) ==
    IF idx + 1 > Len(containers)
    THEN [pc |-> "exhausted", idx |-> idx, out |-> out,
          err |-> "StopIteration", store |-> a]
    ELSE LET r == parse_container(a, containers[idx + 1], TRUE)
         IN  IF r.err # "none"
             THEN ls_resumeSkipping(r.store, containers, idx + 1, out)
             ELSE [pc |-> "suspended", idx |-> idx + 1,
                   out |-> Append(out, r.data), err |-> "none",
                   store |-> r.store]

\* one iteration of "for container in sorted(containers)" up to the next
\* yield, raise or exhaustion
ls_resume(a, containers, idx, out) ==
    IF idx + 1 > Len(containers)
    THEN [pc |-> "exhausted", idx |-> idx, out |-> out,
          err |-> "StopIteration", store |-> a]
    ELSE LET r == parse_container(a, containers[idx + 1], TRUE)
         IN  IF r.err # "none"
             THEN [pc |-> "raised", idx |-> idx + 1, out |-> out,
                   err |-> r.err, store |-> r.store]
             ELSE [pc |-> "suspended", idx |-> idx + 1,
                   out |-> Append(out, r.data), err |-> "none",
                   store |-> r.store]

\* ls(): the generator object is created, no code of the body runs
LsCall ==
    /\ lsPc' = "created"
    /\ lsSorted' = <<>>
    /\ lsIdx' = 0
    /\ lsOut' = <<>>
    /\ lsErr' = "none"
    /\ UNCHANGED <<sceneVars, last, hostVars>>

LsSet(g, containers) ==
    /\ lsPc' = g.pc
    /\ lsSorted' = containers
    /\ lsIdx' = g.idx
    /\ lsOut' = g.out
    /\ lsErr' = g.err
    /\ attrs' = g.store

\* next() on the generator
LsNext ==
    /\ \/ /\ lsPc = "created"
          /\ \E c1 \in lsattr(attrs, live, "id", IdCurrent) :
             \E c2 \in lsattr(attrs, live, "id", IdLegacy) :
             \E s \in sorted(c1 \o c2) :
                LsSet(ls_resume(attrs, s, 0, <<>>), s)
       \/ /\ lsPc = "suspended"
          /\ LsSet(ls_resume(attrs, lsSorted, lsIdx, lsOut), lsSorted)
       \/ /\ lsPc \in {"raised", "exhausted"}
          /\ lsErr' = "StopIteration"
          /\ UNCHANGED <<attrs, lsPc, lsSorted, lsIdx, lsOut>>
    /\ UNCHANGED <<live, last, hostVars>>

-----------------------------------------------------------------------------
(* Inputs *)

Names == {"hero"}
Namespaces == {"main"}
Loaders == {PyNone, PyStr("ModelLoader")}
RepIds == {PyOid("5a1f")}

LegacyRecord ==
    [k \in {"id", "name", "namespace", "representation"} |->
        CASE k = "id" -> IdLegacy
          [] k = "name" -> "hero"
          [] k = "namespace" -> "main"
          [] k = "representation" -> "5a1f"]

TruncatedRecord ==
    [k \in {"schema", "id", "name"} |->
        CASE k = "schema" -> SchemaCurrent
          [] k = "id" -> IdCurrent
          [] k = "name" -> "hero"]

HandRecords == {LegacyRecord, TruncatedRecord}

NodeLists == {<<n>> : n \in live} \cup {<<n, m>> : n, m \in live}

Init ==
    /\ attrs = [n \in Nodes |-> EmptyMap]
    /\ live = ObjNodes \cup {ChildNode}
    /\ last = NoCall
    /\ lsPc = "none"
    /\ lsSorted = <<>>
    /\ lsIdx = 0
    /\ lsOut = <<>>
    /\ lsErr = "none"
    /\ selection = {}
    /\ msPc = "outside"
    /\ previous_selection = {}
    /\ msExit = "none"
    /\ hosts = {}
    /\ has_been_setup = FALSE
    /\ creator_nodes = {}

-----------------------------------------------------------------------------
(* Host lifecycle *)

InstallHosts == {"houdini", "hython", "hpython"}

\* pyblish.api.register_host
register_host(h, name) == h \cup {name}

\* teardown()
teardown_flag(flag) == IF ~flag THEN flag ELSE FALSE

\* install(config): config names a package with or without a houdini module
install(config) ==
    /\ hosts' = register_host(register_host(register_host(hosts, "houdini"),
                                            "hython"), "hpython")
    /\ has_been_setup' = TRUE
    /\ last' = [op |-> "install",
                err |-> IF config = "no_houdini_module" THEN "ImportError"
                        ELSE "none"]
    /\ UNCHANGED <<sceneVars, lsVars, selection, msPc, previous_selection,
                   msExit, creator_nodes>>

\* the hosts uninstall() deregisters, in its order; deregistering a host
\* that is not registered raises and ends the call
uninstall_hosts(h) ==
    IF "hpython" \notin h THEN [hosts |-> h, err |-> "ValueError"]
    ELSE IF "houdini" \notin (h \ {"hpython"})
         THEN [hosts |-> h \ {"hpython"}, err |-> "ValueError"]
         ELSE [hosts |-> (h \ {"hpython"}) \ {"houdini"}, err |-> "none"]

uninstall ==
    /\ hosts' = uninstall_hosts(hosts).hosts
    /\ last' = [op |-> "uninstall", err |-> uninstall_hosts(hosts).err]
    /\ UNCHANGED <<sceneVars, lsVars, selection, msPc, previous_selection,
                   msExit, has_been_setup, creator_nodes>>

teardown ==
    /\ has_been_setup' = teardown_flag(has_been_setup)
    /\ last' = [op |-> "teardown", err |-> "none"]
    /\ UNCHANGED <<sceneVars, lsVars, selection, msPc, previous_selection,
                   msExit, hosts, creator_nodes>>

-----------------------------------------------------------------------------
(* Selection scope *)

\* hou.Node.setSelected(on, clear_all_selected)
setSelected(sel, node, on, clear_all_selected) ==
    LET base == IF clear_all_selected THEN {} ELSE sel
    IN  IF on THEN base \cup {node} ELSE base \ {node}

\* the finally clause of maintained_selection
restore_selection(sel, previous) ==
    IF previous # {}
    THEN sel \cup previous      \* setSelected(on=True) for each previous node
    ELSE sel                    \* the loop runs over the empty selection

\* entry of "with maintained_selection():"
MsEnter ==
    /\ msPc = "outside"
    /\ previous_selection' = selection
    /\ msPc' = "inside"
    /\ msExit' = "none"
    /\ UNCHANGED <<sceneVars, lsVars, last, selection, hosts, has_been_setup,
                   creator_nodes>>

\* a selection change, by the enclosed block or outside any scope
SetSelected(node, on, clear_all_selected) ==
    /\ selection' = setSelected(selection, node, on, clear_all_selected)
    /\ UNCHANGED <<sceneVars, lsVars, last, msPc, previous_selection, msExit,
                   hosts, has_been_setup, creator_nodes>>

\* the enclosed block returns or raises: the finally clause runs
MsLeave(how) ==
    /\ msPc = "inside"
    /\ selection' = restore_selection(selection, previous_selection)
    /\ msPc' = "outside"
    /\ msExit' = how
    /\ UNCHANGED <<sceneVars, lsVars, last, previous_selection, hosts,
                   has_been_setup, creator_nodes>>

-----------------------------------------------------------------------------
(* Creator.process *)

InstanceData ==
    [k \in {"id", "family", "subset"} |->
        CASE k = "id" -> "pyblish.avalon.instance"
          [] k = "family" -> "model"
          [] k = "subset" -> "modelDefault"]

CreatorData == {InstanceData, Put(InstanceData, "node_type", "alembic")}

\* data.pop(k, None): the dict without the key
Pop(d, k) == [x \in (DOMAIN d) \ {k} |-> d[x]]

CreatorProcess(useSelection, data) ==
    /\ \E instance \in OutNodes \ live :
          /\ live' = live \cup {instance}
          /\ attrs' = imprint(attrs, instance, Pop(data, "node_type"))
          /\ last' = [op |-> "process", err |-> "none", node |-> instance,
                      data |-> Pop(data, "node_type"),
                      before |-> attrs[instance]]
    /\ creator_nodes' = IF useSelection THEN selection ELSE creator_nodes
    /\ UNCHANGED <<lsVars, selection, msPc, previous_selection, msExit, hosts,
                   has_been_setup>>

HostNext ==
    \/ \E config \in {"with_houdini_module", "no_houdini_module"} :
          install(config)
    \/ uninstall
    \/ teardown
    \/ MsEnter
    \/ \E node \in ObjNodes, on \in BOOLEAN, clear \in BOOLEAN :
          SetSelected(node, on, clear)
    \/ \E how \in {"return", "raise"} : MsLeave(how)
    \/ \E useSelection \in BOOLEAN, data \in CreatorData :
          CreatorProcess(useSelection, data)

\* The consumer of a scan finishes with its generator before it changes the
\* scene again: the scene is written only while no generator has begun.
NoScanBegun == lsPc \in {"none", "created"}

SceneNext ==
    \/ /\ NoScanBegun
       /\ \E name \in Names, namespace \in Namespaces, nodes \in NodeLists,
             repId \in RepIds, loader \in Loaders :
             containerise(name, namespace, nodes, repId, loader)
    \/ /\ NoScanBegun
       /\ \E node \in live, data \in HandRecords : ImprintByHand(node, data)
    \/ \E node \in live, validate \in BOOLEAN : ParseContainer(node, validate)
    \/ LsCall
    \/ LsNext

Next == SceneNext

Spec == Init /\ [][Next]_vars

SpecHost == Init /\ [][HostNext]_vars

-----------------------------------------------------------------------------
(* Properties *)

\* the record a parse of the stored attributes is to return: the stored
\* attributes, the schema defaulted when absent, objectName and node
ExpectedRecord(stored, node) ==
    [k \in (DOMAIN stored) \cup {"schema", "objectName", "node"} |->
        CASE k = "objectName" -> PathOf(node)
          [] k = "node" -> node
          [] k = "schema" /\ "schema" \notin DOMAIN stored -> SchemaLegacy
          [] OTHER -> stored[k]]

\* p < q for two path strings, component by component
PathLess(p, q) ==
    \/ \E i \in 1 .. Len(p) :
          /\ i <= Len(q)
          /\ \A j \in 1 .. (i - 1) : p[j] = q[j]
          /\ p[i] < q[i]
    \/ /\ Len(p) < Len(q)
       /\ \A j \in 1 .. Len(p) : p[j] = q[j]

IsLegacyStored(stored) ==
    /\ "id" \in DOMAIN stored
    /\ stored["id"] = IdLegacy
    /\ "schema" \notin DOMAIN stored
    /\ "loader" \notin DOMAIN stored

\* C1 (round trip): when a valid record has been imprinted by containerise
\* and the node is parsed next, the parse succeeds and returns the record's
\* six persisted fields with the values imprinted, plus objectName and node
\* and nothing else.
RoundTrip ==
    [][(/\ last.op = "containerise"
        /\ last.err = "none"
        /\ Validates(last.data)
        /\ last'.op = "parse_container"
        /\ last'.node = last.node)
       => (/\ last'.err = "none"
           /\ DOMAIN last'.data = PersistedFields \cup TransientFields
           /\ \A k \in PersistedFields : last'.data[k] = last.data[k])]_vars

\* a validating parse returned a record written by containerise(loader=None)
RoundTripWitness ==
    /\ last.op = "parse_container"
    /\ last.validate
    /\ last.err = "none"
    /\ last.data["id"] = IdCurrent
    /\ last.data["loader"] = "None"
    /\ attrs[last.node] = ContainerData("hero", "main", PyNone, PyOid("5a1f"))

\* C2 (deterministic ordering): the records ls() has yielded ascend in
\* objectName, the node's path string.
OrderedByPath ==
    \A i, j \in 1 .. Len(lsOut) :
        i < j => ~PathLess(lsOut[j]["objectName"], lsOut[i]["objectName"])

\* C3 (deduplication): ls() yields at most one record per node.
OneRecordPerNode ==
    \A i, j \in 1 .. Len(lsOut) :
        i # j => lsOut[i]["node"] # lsOut[j]["node"]

\* C4 (legacy discoverability): a node that stores the legacy id and neither
\* schema nor loader, once the scan has come to it, has been yielded with
\* every field of the current schema present, loader included.
LegacyParsesWithLoader ==
    \A i \in 1 .. lsIdx :
        IsLegacyStored(attrs[lsSorted[i]])
        => /\ i <= Len(lsOut)
           /\ lsOut[i]["node"] = lsSorted[i]
           /\ PersistedFields \subseteq DOMAIN lsOut[i]

\* C5 (destructive overwrite): after a record is imprinted on a node, by
\* containerise or by hand, the node's stored attribute map is exactly that
\* record: nothing of what was stored before remains.
ImprintOverwrites ==
    (last.op \in {"containerise", "imprint"} /\ last.err = "none")
    => attrs[last.node] = last.data

\* a legacy record was imprinted over a container record, which stored a
\* loader and a schema that the legacy record does not have
ImprintOverwritesWitness ==
    /\ last.op = "imprint"
    /\ last.data = LegacyRecord
    /\ "id" \in DOMAIN last.before
    /\ last.before["id"] = IdCurrent
    /\ {"loader", "schema"} \subseteq DOMAIN last.before
    /\ DOMAIN attrs[last.node] = DOMAIN LegacyRecord

\* C6 (fail-fast discovery): when the k-th container of the scan fails to
\* validate, the k-1 records before it have been yielded in order, the
\* validation error is raised at that point, no container is passed over,
\* and nothing more is ever yielded.
FailFast ==
    /\ [](lsPc = "raised"
          => /\ lsIdx >= 1
             /\ Len(lsOut) = lsIdx - 1
             /\ \A i \in 1 .. (lsIdx - 1) : lsOut[i]["node"] = lsSorted[i]
             /\ ~Validates(ExpectedRecord(attrs[lsSorted[lsIdx]],
                                          lsSorted[lsIdx])))
    /\ [](lsPc \in {"suspended", "exhausted"}
          => /\ Len(lsOut) = lsIdx
             /\ \A i \in 1 .. lsIdx : lsOut[i]["node"] = lsSorted[i])
    /\ [][(lsPc # "raised" /\ lsPc' = "raised")
          => /\ lsErr' = "ValidationError"
             /\ lsOut' = IF lsPc = "created" THEN <<>> ELSE lsOut]_vars
    /\ [][(lsPc = "raised" /\ lsPc' = "raised")
          => /\ lsOut' = lsOut
             /\ lsIdx' = lsIdx
             /\ lsErr' \in {lsErr, "StopIteration"}]_vars

\* the second of at least three containers failed, and the consumer has
\* asked for more
FailFastWitness ==
    /\ lsPc = "raised"
    /\ lsIdx = 2
    /\ Len(lsSorted) >= 3
    /\ Len(lsOut) = 1
    /\ lsErr = "StopIteration"

\* C7 (validation switch): a validating parse of a structurally invalid
\* stored record raises the validation error and returns nothing; a
\* non-validating parse always returns the best-effort record.
ValidationSwitch ==
    last.op = "parse_container"
    => LET expected == ExpectedRecord(attrs[last.node], last.node)
       IN  /\ (last.validate /\ ~Validates(expected))
              => (last.err = "ValidationError" /\ last.data = EmptyMap)
           /\ (last.validate /\ Validates(expected))
              => (last.err = "none" /\ last.data = expected)
           /\ ~last.validate
              => (last.err = "none" /\ last.data = expected)

\* a non-validating parse returned a record that does not validate
ValidationSwitchWitness ==
    /\ last.op = "parse_container"
    /\ ~last.validate
    /\ last.err = "none"
    /\ attrs[last.node] = TruncatedRecord
    /\ ~Validates(last.data)

\* C8 (scoped selection restore): when the maintained_selection scope
\* exits, the selection equals the selection at entry.
SelectionRestored ==
    [][(msPc = "inside" /\ msPc' = "outside")
       => selection' = previous_selection]_vars

\* C9 (parsing is read-only): no stored attribute map holds objectName or
\* node, a stored legacy record has no schema, and a parse_container call or
\* a step of ls() leaves every stored attribute map as it was.
ParseReadOnly ==
    /\ [](\A n \in Nodes :
            /\ (DOMAIN attrs[n]) \cap TransientFields = {}
            /\ ("id" \in DOMAIN attrs[n] /\ attrs[n]["id"] = IdLegacy)
               => "schema" \notin DOMAIN attrs[n])
    /\ [][(lsVars' # lsVars \/ last'.op = "parse_container")
          => attrs' = attrs]_vars

\* a legacy node has been yielded by ls() and parsed directly, both with
\* the schema defaulted, and still stores the legacy record
ParseReadOnlyWitness ==
    /\ last.op = "parse_container"
    /\ last.err = "none"
    /\ attrs[last.node] = LegacyRecord
    /\ last.data["schema"] = SchemaLegacy
    /\ lsPc = "exhausted"
    /\ \E i \in 1 .. Len(lsOut) :
          lsOut[i]["node"] = last.node /\ lsOut[i]["schema"] = SchemaLegacy

\* C10 (lifecycle symmetry): after uninstall() none of the hosts install()
\* registers is registered and _has_been_setup is False.
UninstallUndoesInstall ==
    last.op = "uninstall"
    => (hosts \cap InstallHosts = {} /\ has_been_setup = FALSE)

====
